---- MODULE Spec2Model ----
(***************************************************************************)
(* A model of trendvisdata/trend.py.                                       *)
(*                                                                         *)
(*   SpecReturns : ReturnsHistory.get_returns / generate_returns           *)
(*   SpecHistory : ReturnsHistory.get_history                              *)
(*   SpecRun     : TrendStrength.__init__ and the stages it sequences      *)
(*                                                                         *)
(* Dates are day ordinals of a non-leap year (1 = Jan 1).  A percentage    *)
(* return is kept as an exact reduced fraction <<num, den>> (den > 0), so  *)
(* that two returns are equal exactly when the floating-point quotients    *)
(* the code computes from small integer prices are equal.                  *)
(***************************************************************************)
EXTENDS Integers, Sequences, FiniteSets, TLC

VARIABLES
    \* ---- ReturnsHistory.get_returns / generate_returns
    history,          \* the close-price table passed to get_returns
    tenor_mappings,   \* the tenor map passed to get_returns
    rpc,              \* position: "call", "returned", "raised", "done", "failed"
    returns_dict,     \* what get_returns returned (NoDict before, or on a raise)
    exc,              \* the exception in flight ("none" when there is none)
    self_returns,     \* ReturnsHistory.returns, set by __init__ on success
    \* ---- ReturnsHistory.get_history
    hpc,              \* position: "call", "done"
    tickers,          \* the list of ticker names
    raw,              \* per ticker, the provider's Close series: date -> price
    hist_out,         \* the table get_history returned
    \* ---- TrendStrength
    tpc,              \* position of the run inside __init__
    heap,             \* the objects: globals and the current run's copies
    inputs,           \* kwargs of the current run
    locals,           \* params / mappings references and tables of the run
    log,              \* the stages invoked by the current run, in order
    attrs,            \* the names of the attributes set on self
    runs,             \* number of runs started so far
    prior             \* an earlier run overrode and changed its parameters

rvars == <<history, tenor_mappings, rpc, returns_dict, exc, self_returns>>
hvars == <<hpc, tickers, raw, hist_out>>
tvars == <<tpc, heap, inputs, locals, log, attrs, runs, prior>>
vars == <<rvars, hvars, tvars>>

(***************************************************************************)
(* Bounds and sample domains.                                              *)
(***************************************************************************)
MaxRows == 3          \* most rows of a history passed to get_returns
MaxDates == 4         \* dates 1..MaxDates of the provider's series (get_history)
MaxRuns == 2          \* TrendStrength runs in one behaviour

Prices == {1, 2}
ColumnChoices == {<<"A">>, <<"B", "A">>}
\* Feb 28, Mar 24, Mar 30, Mar 31
CandDates == {59, 83, 89, 90}
DayCounts == {1, 2}
WeekCounts == {1}
MonthCounts == {1}
\* labelled day-counts that no tenor of the sampled maps uses
SpareKeys == {3}
LabelNames == (1 :> "1D") @@ (2 :> "2D") @@ (3 :> "3D")

(***************************************************************************)
(* Sequence helpers.                                                       *)
(***************************************************************************)
SeqToSet(s) == {s[i] : i \in DOMAIN s}

InSeq(x, s) == \E i \in DOMAIN s : s[i] = x

SetMin(S) == CHOOSE x \in S : \A y \in S : x <= y

SetMax(S) == CHOOSE x \in S : \A y \in S : y <= x

RECURSIVE SortedSeq(_)
SortedSeq(S) ==
    IF S = {} THEN <<>>
    ELSE LET m == SetMin(S) IN <<m>> \o SortedSeq(S \ {m})

RECURSIVE Gcd(_, _)
Gcd(a, b) == IF b = 0 THEN a ELSE Gcd(b, a % b)

Abs(x) == IF x < 0 THEN 0 - x ELSE x

(***************************************************************************)
(* Calendar: pandas DateOffset on day ordinals.                            *)
(***************************************************************************)
MonthLen == <<31, 28, 31, 30, 31, 30, 31, 31, 30, 31, 30, 31>>

RECURSIVE DaysBefore(_)
DaysBefore(month) ==
    IF month <= 1 THEN 0 ELSE DaysBefore(month - 1) + MonthLen[month - 1]

MonthOf(date) ==
    CHOOSE m \in 1..12 : DaysBefore(m) < date /\ date <= DaysBefore(m) + MonthLen[m]

DayOf(date) == date - DaysBefore(MonthOf(date))

\* end_date + DateOffset(weeks=-week)
WeeksBack(date, week) == date - 7 * week

\* end_date + DateOffset(months=-month): the same day of the earlier month,
\* clipped to that month's last day; an earlier year gives an ordinal <= 0.
MonthsBack(date, month) ==
    LET m0 == MonthOf(date) - month
        yrs == IF m0 >= 1 THEN 0 ELSE ((12 - m0) \div 12)
        m1 == m0 + 12 * yrs
        d1 == IF DayOf(date) <= MonthLen[m1] THEN DayOf(date) ELSE MonthLen[m1]
    IN  DaysBefore(m1) + d1 - 365 * yrs

(***************************************************************************)
(* (a - b) / b * 100 as an exact reduced fraction.                         *)
(***************************************************************************)
PctReturn(last, first) ==
    LET n == (last - first) * 100
        g == Gcd(Abs(n), first)
    IN  <<n \div g, first \div g>>

NaNRet == <<0, 0>>

(***************************************************************************)
(* ReturnsHistory.get_returns.                                             *)
(*   history        : [index: sorted Seq(date), columns: Seq(name),        *)
(*                     px: [name -> Seq(price)]]                           *)
(*   tenor_mappings : [days: Seq(day), weeks, months: Seq([n, k]),         *)
(*                     labels: [day -> label]]   (dicts keep their order)  *)
(*   returns_df     : [columns: Seq(label), cell: [name -> [label -> v]]]  *)
(***************************************************************************)
NRows(h) == Len(h.index)

\* history[column].iloc[-day-1] is in range
ILocBackOK(h, day) == day + 1 <= NRows(h)

\* history[column].iloc[-day-1]
ILocBack(h, column, day) == h.px[column][NRows(h) - day]

\* start_date is a key of history.index
HasDate(h, date) == InSeq(date, h.index)

\* history.loc[date, column]
Loc(h, date, column) ==
    h.px[column][CHOOSE i \in DOMAIN h.index : h.index[i] = date]

\* history.index[-1]
EndDate(h) == h.index[NRows(h)]

\* variant: iloc[day] in place of iloc[-day-1] (the offset counted from the
\* first row)
IndexReturn_FromStart(h, column, day) ==
    PctReturn(ILocBack(h, column, 0), h.px[column][day + 1])

\* the index-offset return of lines 444-446 (and 460-463, 477-480)
IndexReturn(h, column, day) ==
    PctReturn(ILocBack(h, column, 0), ILocBack(h, column, day))

\* the calendar return of lines 453-456 (and 470-473)
CalendarReturn(h, column, start_date) ==
    PctReturn(Loc(h, EndDate(h), column), Loc(h, start_date, column))

\* returns_df = pd.DataFrame(); returns_df.index = history.columns
EmptyFrame(h) ==
    [columns |-> <<>>, cell |-> [r \in SeqToSet(h.columns) |-> <<>>]]

\* the day-count a label stands for
KeyOfLabel(label) == CHOOSE k \in DOMAIN LabelNames : LabelNames[k] = label

\* variant: the frame keeps its columns sorted by label
SetCell_Sorted(df, row, label, v) ==
    LET labs == SeqToSet(df.columns) \cup {label}
        keys == SortedSeq({KeyOfLabel(l) : l \in labs})
        cols == [i \in DOMAIN keys |-> LabelNames[keys[i]]]
    IN  [columns |-> cols,
         cell |-> [r \in DOMAIN df.cell |->
                     [l \in labs |->
                        IF r = row /\ l = label THEN v
                        ELSE IF l \in DOMAIN df.cell[r] THEN df.cell[r][l]
                        ELSE NaNRet]]]

\* returns_df.loc[row, label] = v : a new label becomes the last column,
\* with NaN in the rows not written yet
SetCell(df, row, label, v) ==
    LET cols == IF InSeq(label, df.columns) THEN df.columns
                ELSE Append(df.columns, label)
    IN  [columns |-> cols,
         cell |-> [r \in DOMAIN df.cell |->
                     [l \in SeqToSet(cols) |->
                        IF r = row /\ l = label THEN v
                        ELSE IF l \in DOMAIN df.cell[r] THEN df.cell[r][l]
                        ELSE NaNRet]]]

\* variant: an out-of-range offset leaves a missing value and goes on
OffsetWrite_Swallow(st, h, labels, column, day) ==
    IF st.err # "none" THEN st
    ELSE IF ~ILocBackOK(h, day)
         THEN [st EXCEPT !.df = SetCell(st.df, column, labels[day], NaNRet)]
    ELSE [st EXCEPT !.df =
            SetCell(st.df, column, labels[day], IndexReturn(h, column, day))]

\* an index-offset assignment; an out-of-range iloc raises IndexError
OffsetWrite(st, h, labels, column, day) ==
    IF st.err # "none" THEN st
    ELSE IF ~ILocBackOK(h, day) THEN [st EXCEPT !.err = "IndexError"]
    ELSE [st EXCEPT !.df =
            SetCell(st.df, column, labels[day], IndexReturn(h, column, day))]

\* variant: no except clause, the KeyError of a missing date leaves
CalendarWrite_NoFallback(st, h, labels, column, start_date, day) ==
    IF st.err # "none" THEN st
    ELSE IF HasDate(h, start_date)
         THEN [st EXCEPT !.df =
                 SetCell(st.df, column, labels[day],
                         CalendarReturn(h, column, start_date))]
         ELSE [st EXCEPT !.err = "KeyError"]

\* variant: week and month tenors always use the index offset
CalendarWrite_OffsetOnly(st, h, labels, column, start_date, day) ==
    IF st.err # "none" THEN st
    ELSE IF ~ILocBackOK(h, day) THEN [st EXCEPT !.err = "IndexError"]
    ELSE [st EXCEPT !.df =
            SetCell(st.df, column, labels[day], IndexReturn(h, column, day))]

\* try: the calendar assignment; except: the index-offset assignment
CalendarWrite(st, h, labels, column, start_date, day) ==
    IF st.err # "none" THEN st
    ELSE IF HasDate(h, start_date)
         THEN [st EXCEPT !.df =
                 SetCell(st.df, column, labels[day],
                         CalendarReturn(h, column, start_date))]
         ELSE OffsetWrite(st, h, labels, column, day)

RECURSIVE DaysLoop(_, _, _, _, _)
DaysLoop(st, h, tm, column, i) ==
    IF i > Len(tm.days) THEN st
    ELSE DaysLoop(OffsetWrite(st, h, tm.labels, column, tm.days[i]),
                  h, tm, column, i + 1)

RECURSIVE WeeksLoop(_, _, _, _, _)
WeeksLoop(st, h, tm, column, i) ==
    IF i > Len(tm.weeks) THEN st
    ELSE WeeksLoop(
           CalendarWrite(st, h, tm.labels, column,
                         WeeksBack(EndDate(h), tm.weeks[i].n), tm.weeks[i].k),
           h, tm, column, i + 1)

RECURSIVE MonthsLoop(_, _, _, _, _)
MonthsLoop(st, h, tm, column, i) ==
    IF i > Len(tm.months) THEN st
    ELSE MonthsLoop(
           CalendarWrite(st, h, tm.labels, column,
                         MonthsBack(EndDate(h), tm.months[i].n), tm.months[i].k),
           h, tm, column, i + 1)

\* the body of "for column in history.columns"
ColumnBody(st, h, tm, column) ==
    MonthsLoop(WeeksLoop(DaysLoop(st, h, tm, column, 1), h, tm, column, 1),
               h, tm, column, 1)

RECURSIVE ColumnsLoop(_, _, _, _)
ColumnsLoop(st, h, tm, i) ==
    IF i > Len(h.columns) THEN st
    ELSE ColumnsLoop(ColumnBody(st, h, tm, h.columns[i]), h, tm, i + 1)

\* returns_df.T.to_dict(orient='list'): per instrument, the row as a list
ToDictList(df) ==
    [r \in DOMAIN df.cell |->
        [num \in 1..Len(df.columns) |-> df.cell[r][df.columns[num]]]]

\* one asset_dict: key 'label' first, then one key per tenor
AssetDict(key, value, tenors) ==
    [keys |-> <<"label">> \o tenors,
     label |-> key,
     vals |-> [t \in SeqToSet(tenors) |->
                 value[CHOOSE num \in DOMAIN tenors : tenors[num] = t]]]

\* variant: the append is outside the loop, only the last record is kept
ReturnsArray_LastOnly(h, df) ==
    <<AssetDict(h.columns[Len(h.columns)],
                ToDictList(df)[h.columns[Len(h.columns)]], df.columns)>>

\* returns_array, one asset_dict per item of data, in the frame's row order
ReturnsArray(h, df) ==
    [i \in 1..Len(h.columns) |->
        AssetDict(h.columns[i], ToDictList(df)[h.columns[i]], df.columns)]

\* the outcome of get_returns(history, tenor_mappings)
GetReturnsOutcome(h, tm) ==
    IF NRows(h) = 0
    THEN [err |-> "IndexError", dict |-> <<>>]
    ELSE LET st == ColumnsLoop([df |-> EmptyFrame(h), err |-> "none"], h, tm, 1)
         IN  IF st.err # "none"
             THEN [err |-> st.err, dict |-> <<>>]
             ELSE [err |-> "none",
                   dict |-> <<[data |-> ReturnsArray(h, st.df),
                               labels |-> st.df.columns]>>]

(***************************************************************************)
(* The inputs of get_returns: a history as get_history leaves it (dates    *)
(* strictly increasing, no missing value, one column per instrument) and a *)
(* tenor map in which every day-count used has a label.                    *)
(***************************************************************************)
IndexChoices ==
    {SortedSeq(S) : S \in {T \in SUBSET CandDates : Cardinality(T) <= MaxRows}}

Histories ==
    UNION {
        {[index |-> idx, columns |-> cols, px |-> px] :
            px \in [SeqToSet(cols) -> [1..Len(idx) -> Prices]]} :
        idx \in IndexChoices, cols \in ColumnChoices}

DaysChoices ==
    {<<>>} \cup {<<a>> : a \in DayCounts}
           \cup {<<p[1], p[2]>> : p \in {q \in DayCounts \X DayCounts : q[1] # q[2]}}

WeeksChoices == {<<>>} \cup {<<e>> : e \in [n : WeekCounts, k : DayCounts]}

MonthsChoices == {<<>>} \cup {<<e>> : e \in [n : MonthCounts, k : DayCounts]}

\* the day-counts whose label get_returns looks up
UsedKeys(days, weeks, months) ==
    SeqToSet(days) \cup {weeks[i].k : i \in DOMAIN weeks}
                   \cup {months[i].k : i \in DOMAIN months}

TenorMaps ==
    UNION {
        {[days |-> d, weeks |-> w, months |-> m,
          labels |-> [k \in UsedKeys(d, w, m) \cup spare |-> LabelNames[k]]] :
            spare \in SUBSET SpareKeys} :
        d \in DaysChoices, w \in WeeksChoices, m \in MonthsChoices}

HistoryIdle ==
    /\ hpc = "idle" /\ tickers = <<>> /\ raw = <<>> /\ hist_out = <<>>

RunIdle ==
    /\ tpc = "idle" /\ heap = <<>> /\ inputs = <<>> /\ locals = <<>>
    /\ log = <<>> /\ attrs = {} /\ runs = 0 /\ prior = FALSE

InitReturns ==
    /\ history \in Histories
    /\ tenor_mappings \in TenorMaps
    /\ rpc = "call"
    /\ returns_dict = <<>>
    /\ exc = "none"
    /\ self_returns = <<>>
    /\ HistoryIdle
    /\ RunIdle

\* returns = cls.get_returns(history, tenor_mappings)
GetReturns ==
    /\ rpc = "call"
    /\ LET o == GetReturnsOutcome(history, tenor_mappings)
       IN  /\ rpc' = IF o.err = "none" THEN "returned" ELSE "raised"
           /\ returns_dict' = o.dict
           /\ exc' = o.err
    /\ UNCHANGED <<history, tenor_mappings, self_returns, hvars, tvars>>

\* generate_returns returns the dictionary and __init__ stores it
GenerateReturnsReturn ==
    /\ rpc = "returned"
    /\ rpc' = "done"
    /\ self_returns' = returns_dict
    /\ UNCHANGED <<history, tenor_mappings, returns_dict, exc, hvars, tvars>>

\* there is no handler in generate_returns or __init__: the exception leaves
GenerateReturnsRaise ==
    /\ rpc = "raised"
    /\ rpc' = "failed"
    /\ UNCHANGED <<history, tenor_mappings, returns_dict, exc, self_returns,
                   hvars, tvars>>

NextReturns == GetReturns \/ GenerateReturnsReturn \/ GenerateReturnsRaise

SpecReturns == InitReturns /\ [][NextReturns]_vars

(***************************************************************************)
(* Vocabulary of the get_returns claims, over the state variables.         *)
(***************************************************************************)
Succeeded == rpc \in {"returned", "done"}

Failed == rpc \in {"raised", "failed"}

Rows == NRows(history)

\* the record of one instrument in returns_dict['data']
RecordOf(column) ==
    LET data == returns_dict[1].data
    IN  data[CHOOSE i \in DOMAIN data : data[i].label = column]

\* the value reported for an instrument under a tenor label
Reported(column, label) == RecordOf(column).vals[label]

\* (p[last] - p[last-d]) / p[last-d] * 100, by row position alone
OffsetReturn(column, d) ==
    PctReturn(history.px[column][Rows], history.px[column][Rows - d])

\* (p[last date] - p[date]) / p[date] * 100, by date
DateReturn(column, date) ==
    LET row == CHOOSE i \in 1..Rows : history.index[i] = date
    IN  PctReturn(history.px[column][Rows], history.px[column][row])

\* the week entries then the month entries, numbered in the order visited
NumCal == Len(tenor_mappings.weeks) + Len(tenor_mappings.months)

CalKey(i) ==
    IF i <= Len(tenor_mappings.weeks) THEN tenor_mappings.weeks[i].k
    ELSE tenor_mappings.months[i - Len(tenor_mappings.weeks)].k

\* the calendar target date of entry i (history not empty)
CalDate(i) ==
    IF i <= Len(tenor_mappings.weeks)
    THEN history.index[Rows] - 7 * tenor_mappings.weeks[i].n
    ELSE MonthsBack(history.index[Rows],
                    tenor_mappings.months[i - Len(tenor_mappings.weeks)].n)

CalPresent(i) == Rows >= 1 /\ CalDate(i) \in SeqToSet(history.index)

\* entry i is the last week or month entry that maps to its day-count
CalLast(i) == \A j \in (i + 1)..NumCal : CalKey(j) # CalKey(i)

\* the last week or month entry mapping to k found its calendar date
CalendarDecides(k) ==
    \E i \in 1..NumCal : CalKey(i) = k /\ CalLast(i) /\ CalPresent(i)

\* some index-offset lookup of the call runs past the start of the history
OutOfRange ==
    \/ \E d \in SeqToSet(tenor_mappings.days) : d >= Rows
    \/ \E i \in 1..NumCal : ~CalPresent(i) /\ CalKey(i) >= Rows

RECURSIVE FirstOccurrences(_)
FirstOccurrences(s) ==
    IF s = <<>> THEN <<>>
    ELSE LET front == FirstOccurrences(SubSeq(s, 1, Len(s) - 1))
         IN  IF InSeq(s[Len(s)], front) THEN front ELSE Append(front, s[Len(s)])

\* the labels of the tenors as declared: days, then weeks, then months
DeclaredLabels ==
    [i \in 1..Len(tenor_mappings.days) |->
        tenor_mappings.labels[tenor_mappings.days[i]]]
    \o [i \in 1..NumCal |-> tenor_mappings.labels[CalKey(i)]]

(***************************************************************************)
(* C1                                                                      *)
(***************************************************************************)
\* C1 (as stated): for every instrument and every day-count d of 'days' with
\* more than d rows of history, the value reported under labels[d] is the
\* index-offset return over d rows, whatever the week and month entries are.
C1_DayReturnWhateverCalendar ==
    Succeeded =>
        \A c \in SeqToSet(history.columns), d \in SeqToSet(tenor_mappings.days) :
            Rows > d =>
                Reported(c, tenor_mappings.labels[d]) = OffsetReturn(c, d)

\* C1 (amended): the value reported under labels[d] is the index-offset
\* return over d rows unless the last week or month entry that maps to the
\* same day-count d finds its calendar date in the index.
C1_DayReturnUnlessCalendarDecides ==
    Succeeded =>
        \A c \in SeqToSet(history.columns), d \in SeqToSet(tenor_mappings.days) :
            (Rows > d /\ ~CalendarDecides(d)) =>
                Reported(c, tenor_mappings.labels[d]) = OffsetReturn(c, d)

\* a day-count shared with a week or month entry whose date is missing, and
\* a return that is not zero
C1_Witness ==
    /\ Succeeded
    /\ \E c \in SeqToSet(history.columns), d \in SeqToSet(tenor_mappings.days) :
          /\ \E i \in 1..NumCal : CalKey(i) = d
          /\ ~CalendarDecides(d)
          /\ d >= 2
          /\ Reported(c, tenor_mappings.labels[d]) # <<0, 1>>

(***************************************************************************)
(* C2                                                                      *)
(***************************************************************************)
\* C2 (as stated): for every week or month entry whose calendar date is not
\* in the index while the history has more than k rows, the call does not
\* raise and the value under labels[k] is the k-row index-offset return.
C2_MissFallsBackAlways ==
    rpc # "call" =>
        \A i \in 1..NumCal :
            (Rows > CalKey(i) /\ ~CalPresent(i)) =>
                /\ Succeeded
                /\ \A c \in SeqToSet(history.columns) :
                      Reported(c, tenor_mappings.labels[CalKey(i)])
                          = OffsetReturn(c, CalKey(i))

\* C2 (amended): a calendar miss raises nothing by itself: get_returns raises
\* only an out-of-range error of some index-offset lookup; and when the call
\* returns, the value under labels[k] of an entry whose date is missing is the
\* k-row index-offset return unless the last week or month entry mapping to
\* k finds its calendar date in the index.
C2_MissFallsBack ==
    /\ Failed => (exc = "IndexError" /\ (Rows = 0 \/ OutOfRange))
    /\ Succeeded =>
        \A i \in 1..NumCal :
            (Rows > CalKey(i) /\ ~CalPresent(i) /\ ~CalendarDecides(CalKey(i))) =>
                \A c \in SeqToSet(history.columns) :
                    Reported(c, tenor_mappings.labels[CalKey(i)])
                        = OffsetReturn(c, CalKey(i))

\* a week entry whose date is missing, reported by the fallback, not zero
C2_Witness ==
    /\ Succeeded
    /\ tenor_mappings.days = <<>>
    /\ \E i \in 1..NumCal, c \in SeqToSet(history.columns) :
          /\ i <= Len(tenor_mappings.weeks)
          /\ ~CalPresent(i)
          /\ CalKey(i) >= 2
          /\ ~CalendarDecides(CalKey(i))
          /\ Reported(c, tenor_mappings.labels[CalKey(i)]) # <<0, 1>>

(***************************************************************************)
(* C3                                                                      *)
(***************************************************************************)
\* C3 (as stated): for every week or month entry whose calendar date is in
\* the index, the value reported under its label is computed from the price
\* on that exact date.
C3_CalendarExactAlways ==
    Succeeded =>
        \A i \in 1..NumCal :
            CalPresent(i) =>
                \A c \in SeqToSet(history.columns) :
                    Reported(c, tenor_mappings.labels[CalKey(i)])
                        = DateReturn(c, CalDate(i))

\* C3 (amended): the same, for the last week or month entry that maps to its
\* day-count k (a later entry with the same k rewrites the label).
C3_CalendarExact ==
    Succeeded =>
        \A i \in 1..NumCal :
            (CalPresent(i) /\ CalLast(i)) =>
                \A c \in SeqToSet(history.columns) :
                    Reported(c, tenor_mappings.labels[CalKey(i)])
                        = DateReturn(c, CalDate(i))

\* the calendar date is present and its return differs from the k-row one
C3_Witness ==
    /\ Succeeded
    /\ \E i \in 1..NumCal, c \in SeqToSet(history.columns) :
          /\ CalPresent(i) /\ CalLast(i)
          /\ Rows > CalKey(i)
          /\ DateReturn(c, CalDate(i)) # OffsetReturn(c, CalKey(i))
          /\ Reported(c, tenor_mappings.labels[CalKey(i)])
                 = DateReturn(c, CalDate(i))

(***************************************************************************)
(* C4                                                                      *)
(***************************************************************************)
\* C4: returns_dict['labels'], and the keys of every record after 'label',
\* list the tenor labels in the order the tenors were declared (days, then
\* weeks, then months), each label once at its first place.
C4_LabelsInDeclaredOrder ==
    Succeeded =>
        /\ returns_dict[1].labels = FirstOccurrences(DeclaredLabels)
        /\ \A i \in DOMAIN returns_dict[1].data :
              returns_dict[1].data[i].keys
                  = <<"label">> \o FirstOccurrences(DeclaredLabels)

\* a declared order that is not the sorted one, with a label declared twice
C4_Witness ==
    /\ Succeeded
    /\ returns_dict[1].labels = <<"2D", "1D">>
    /\ Len(DeclaredLabels) > 2
    /\ Len(history.columns) = 2

(***************************************************************************)
(* C5                                                                      *)
(***************************************************************************)
\* C5: if some day-count used by an index-offset lookup (a day-count of
\* 'days', or that of a week or month entry whose calendar date is missing)
\* is not smaller than the number of rows, get_returns raises the
\* out-of-range error, no dictionary is returned and none is stored.
C5_ShortHistoryRaises ==
    (rpc # "call" /\ OutOfRange) =>
        /\ Failed
        /\ exc = "IndexError"
        /\ returns_dict = <<>>
        /\ self_returns = <<>>

\* the error leaves from the fallback handler of a calendar miss
C5_Witness ==
    /\ rpc = "failed"
    /\ Rows >= 1
    /\ \A d \in SeqToSet(tenor_mappings.days) : d < Rows
    /\ \E i \in 1..NumCal : ~CalPresent(i) /\ CalKey(i) >= Rows

(***************************************************************************)
(* C6                                                                      *)
(***************************************************************************)
\* C6 (as stated): one record per instrument column, each with 'label' and
\* one value for every label defined in tenor_mappings['labels'].
C6_OneValuePerDefinedLabel ==
    Succeeded =>
        /\ Len(returns_dict[1].data) = Len(history.columns)
        /\ \A i \in DOMAIN returns_dict[1].data :
              /\ returns_dict[1].data[i].label = history.columns[i]
              /\ DOMAIN returns_dict[1].data[i].vals
                     = {tenor_mappings.labels[k] : k \in DOMAIN tenor_mappings.labels}
              /\ DOMAIN returns_dict[1].data[i].vals
                     = SeqToSet(returns_dict[1].labels)

\* C6 (amended): one record per instrument column, in column order, each
\* with 'label' and exactly one value for every label that
\* tenor_mappings['labels'] gives to a day-count used by a days, weeks or
\* months entry; the tenor keys are those of returns_dict['labels'].
C6_OneValuePerUsedLabel ==
    Succeeded =>
        /\ Len(returns_dict[1].data) = Len(history.columns)
        /\ \A i \in DOMAIN returns_dict[1].data :
              LET rec == returns_dict[1].data[i]
              IN  /\ rec.label = history.columns[i]
                  /\ rec.keys[1] = "label"
                  /\ Len(rec.keys) = 1 + Cardinality(DOMAIN rec.vals)
                  /\ SeqToSet(rec.keys) = {"label"} \cup DOMAIN rec.vals
                  /\ DOMAIN rec.vals
                       = {tenor_mappings.labels[k] :
                            k \in UsedKeys(tenor_mappings.days,
                                           tenor_mappings.weeks,
                                           tenor_mappings.months)}
                  /\ DOMAIN rec.vals = SeqToSet(returns_dict[1].labels)
                  /\ \A t \in DOMAIN rec.vals : rec.vals[t] # NaNRet

\* two instruments, two tenor labels each
C6_Witness ==
    /\ Succeeded
    /\ Len(returns_dict[1].data) = 2
    /\ Cardinality(DOMAIN returns_dict[1].data[2].vals) = 2
    /\ DOMAIN tenor_mappings.labels
          = UsedKeys(tenor_mappings.days, tenor_mappings.weeks,
                     tenor_mappings.months)

(***************************************************************************)
(* ReturnsHistory.get_history.                                             *)
(*   raw[t]  : the Close series the provider gives for ticker t, a         *)
(*             function from its dates to prices                           *)
(*   a table : [index: Seq(date), columns: Seq(name),                      *)
(*              px: [name -> Seq(price or NaN)]]                           *)
(***************************************************************************)
NaN == 0

\* history = pd.DataFrame()
EmptyTable == [index |-> <<>>, columns |-> <<>>, px |-> <<>>]

\* a column re-indexed on a new index: NaN where it has no row
Reindex(values, index, newindex) ==
    [i \in DOMAIN newindex |->
        IF InSeq(newindex[i], index)
        THEN values[CHOOSE j \in DOMAIN index : index[j] = newindex[i]]
        ELSE NaN]

\* one iteration of the loop over tickers: history[name] = data['Close'] while
\* the table has no row, pd.concat(..., axis=1) (outer join, dates sorted)
\* afterwards
AddTicker(table, name, series) ==
    LET newindex ==
            IF Len(table.index) = 0 THEN SortedSeq(DOMAIN series)
            ELSE SortedSeq(SeqToSet(table.index) \cup DOMAIN series)
    IN  [index |-> newindex,
         columns |-> Append(table.columns, name),
         px |-> [c \in SeqToSet(table.columns) \cup {name} |->
                   IF c = name
                   THEN [i \in DOMAIN newindex |->
                           IF newindex[i] \in DOMAIN series
                           THEN series[newindex[i]] ELSE NaN]
                   ELSE Reindex(table.px[c], table.index, newindex)]]

RECURSIVE TickerLoop(_, _, _, _)
TickerLoop(table, tk, data, i) ==
    IF i > Len(tk) THEN table
    ELSE TickerLoop(AddTicker(table, tk[i], data[tk[i]]), tk, data, i + 1)

\* variant: bfill, a gap takes the next later value
RECURSIVE FillAt_Backward(_, _)
FillAt_Backward(values, i) ==
    IF values[i] # NaN THEN values[i]
    ELSE IF i = Len(values) THEN NaN
    ELSE FillAt_Backward(values, i + 1)

\* the value of row i after ffill: the last value at or above it
RECURSIVE FillAt(_, _)
FillAt(values, i) ==
    IF values[i] # NaN THEN values[i]
    ELSE IF i = 1 THEN NaN
    ELSE FillAt(values, i - 1)

\* history.ffill(inplace=True)
Ffill(table) ==
    [table EXCEPT !.px =
        [c \in DOMAIN table.px |->
            [i \in DOMAIN table.px[c] |-> FillAt(table.px[c], i)]]]

\* history.dropna(inplace=True): the rows without any missing value
Dropna(table) ==
    LET keep == SortedSeq({i \in DOMAIN table.index :
                             \A c \in DOMAIN table.px : table.px[c][i] # NaN})
    IN  [index |-> [j \in DOMAIN keep |-> table.index[keep[j]]],
         columns |-> table.columns,
         px |-> [c \in DOMAIN table.px |->
                   [j \in DOMAIN keep |-> table.px[c][keep[j]]]]]

GetHistoryResult(tk, data) == Dropna(Ffill(TickerLoop(EmptyTable, tk, data, 1)))

(***************************************************************************)
(* The inputs of get_history.                                              *)
(***************************************************************************)
TickerChoices == {<<>>} \cup ColumnChoices

SeriesChoices == UNION {[D -> Prices] : D \in SUBSET (1..MaxDates)}

ReturnsIdle ==
    /\ history = <<>> /\ tenor_mappings = <<>> /\ rpc = "idle"
    /\ returns_dict = <<>> /\ exc = "none" /\ self_returns = <<>>

InitHistory ==
    /\ tickers \in TickerChoices
    /\ raw \in [SeqToSet(tickers) -> SeriesChoices]
    /\ hpc = "call"
    /\ hist_out = <<>>
    /\ ReturnsIdle
    /\ RunIdle

\* history = cls.get_history(start_date, end_date, tickers)
GetHistory ==
    /\ hpc = "call"
    /\ hpc' = "done"
    /\ hist_out' = <<GetHistoryResult(tickers, raw)>>
    /\ UNCHANGED <<tickers, raw, rvars, tvars>>

NextHistory == GetHistory

SpecHistory == InitHistory /\ [][NextHistory]_vars

(***************************************************************************)
(* C10                                                                     *)
(***************************************************************************)
\* the dates on which every ticker already has an observation
CoveredDates ==
    {t \in UNION {DOMAIN raw[c] : c \in SeqToSet(tickers)} :
        \A c \in SeqToSet(tickers) : \E u \in DOMAIN raw[c] : u <= t}

\* the most recent observation date of ticker c at or before t
LastObserved(c, t) == SetMax({u \in DOMAIN raw[c] : u <= t})

\* C10: the table get_history returns has no missing value; each cell is the
\* instrument's observation of that date or else its most recent earlier one
\* (never a later one); the rows kept are exactly the dates from which every
\* instrument has an observation.
C10_ForwardFilledNoGaps ==
    hpc = "done" =>
        LET out == hist_out[1]
        IN  /\ out.columns = tickers
            /\ out.index = SortedSeq(CoveredDates)
            /\ \A c \in SeqToSet(tickers) :
                  \A i \in DOMAIN out.index :
                      /\ out.px[c][i] # NaN
                      /\ out.px[c][i] = raw[c][LastObserved(c, out.index[i])]

\* a leading row is dropped and a later gap is filled from an earlier row
\* although a later, different observation exists
C10_Witness ==
    /\ hpc = "done"
    /\ Len(tickers) = 2
    /\ LET out == hist_out[1]
       IN  /\ \E t \in UNION {DOMAIN raw[c] : c \in SeqToSet(tickers)} :
                 t \notin SeqToSet(out.index)
           /\ \E c \in SeqToSet(tickers), i \in DOMAIN out.index :
                 /\ out.index[i] \notin DOMAIN raw[c]
                 /\ \E u \in DOMAIN raw[c] :
                       u > out.index[i] /\ raw[c][u] # out.px[c][i]

(***************************************************************************)
(* TrendStrength.  The heap holds the dictionaries: an object is           *)
(* [s: key -> scalar, r: key -> address].  Addresses 1..Len(GlobalHeap)    *)
(* are the module globals trend_params_dict, its 'df_params', the nested   *)
(* 'tenor_mappings' and sectmap; a run's copies follow them.               *)
(***************************************************************************)
IndicatorTypes == {"adx", "ma_cross", "price_cross", "rsi", "breakout"}

Trends == {"up", "down", "neutral", "strong", "all"}

GlobalHeap ==
    << [s |-> <<>>, r |-> ("df_params" :> 2)],
       [s |-> ("source" :> "norgate") @@ ("indicator_type" :> "adx")
              @@ ("trend" :> "strong") @@ ("tickers" :> "None"),
        r |-> ("tenor_mappings" :> 3)],
       [s |-> ("days" :> "default"), r |-> <<>>],
       [s |-> ("sectors" :> "default"), r |-> <<>>] >>

TrendParamsDict == 1

SectMap == 4

\* the objects reachable from an address
RECURSIVE Reach(_, _)
Reach(h, a) == {a} \cup UNION {Reach(h, h[a].r[k]) : k \in DOMAIN h[a].r}

\* variant: copy.copy, the nested dictionaries stay shared
DeepCopy_Shallow(h, a) == [heap |-> Append(h, h[a]), addr |-> Len(h) + 1]

\* copy.deepcopy(a): a fresh object for every object reachable from a
DeepCopy(h, a) ==
    LET order == SortedSeq(Reach(h, a))
        fresh == [x \in Reach(h, a) |->
                    Len(h) + (CHOOSE i \in DOMAIN order : order[i] = x)]
    IN  [heap |-> h \o [i \in DOMAIN order |->
                          [s |-> h[order[i]].s,
                           r |-> [k \in DOMAIN h[order[i]].r |->
                                    fresh[h[order[i]].r[k]]]]],
         addr |-> fresh[a]]

\* d[key] = value, a scalar
SetS(h, a, key, value) == [h EXCEPT ![a].s = (key :> value) @@ @]

\* d[key] = another dictionary
SetR(h, a, key, b) == [h EXCEPT ![a].r = (key :> b) @@ @]

\* a collaborator changing, in place, the nested dictionary of its params
Touch(h, params) == SetS(h, h[params].r["tenor_mappings"], "days", "changed")

\* the supplied values that no stage recognizes
Unrecognized(kw) ==
    \/ "indicator_type" \in DOMAIN kw /\ kw["indicator_type"] \notin IndicatorTypes
    \/ "trend" \in DOMAIN kw /\ kw["trend"] \notin Trends

\* variant: _init_params checks the supplied values and raises
InitParamsRaises_Validating(kw) == Unrecognized(kw)

\* _init_params has no check and no raise
InitParamsRaises(kw) == FALSE

\* the kwargs of a run
InputChoices ==
    {(IF it = "absent" THEN <<>> ELSE ("indicator_type" :> it))
     @@ (IF tr = "absent" THEN <<>> ELSE ("trend" :> tr))
     @@ (IF so = "absent" THEN <<>> ELSE ("source" :> so))
     @@ (IF tk = "absent" THEN <<>> ELSE ("tickers" :> tk)) :
        it \in {"absent", "rsi", "bogus"}, tr \in {"absent", "sideways"},
        so \in {"absent", "yahoo", "other"}, tk \in {"absent", "given"}}

NoLocals ==
    [default_dict |-> 0, mappings |-> 0, params |-> 0, bound |-> FALSE,
     tables |-> <<>>, top_trends |-> "unset", data_dict |-> "unset"]

InitRun ==
    /\ tpc = "idle"
    /\ heap = GlobalHeap
    /\ inputs = <<>>
    /\ locals = NoLocals
    /\ log = <<>>
    /\ attrs = {}
    /\ runs = 0
    /\ prior = FALSE
    /\ ReturnsIdle
    /\ HistoryIdle

\* params['source'] of the current run
Source == heap[locals.params].s["source"]

\* TrendStrength(**kwargs), lines 87-98: the copies of the globals; the
\* objects of the instance before it are dropped
Construct ==
    /\ tpc \in {"idle", "done", "failed"}
    /\ runs < MaxRuns
    /\ \E kw \in InputChoices :
         LET c1 == DeepCopy(SubSeq(heap, 1, Len(GlobalHeap)), TrendParamsDict)
             c2 == DeepCopy(c1.heap, SectMap)
         IN  /\ heap' = c2.heap
             /\ inputs' = kw
             /\ locals' = [NoLocals EXCEPT !.default_dict = c1.addr,
                                           !.mappings = c2.addr]
    /\ prior' = (prior \/ (/\ inputs # <<>>
                            /\ locals.params # 0
                            /\ "asset_type" \in DOMAIN heap[locals.params].s
                            /\ heap[heap[locals.params].r["tenor_mappings"]].s["days"]
                                   = "changed"))
    /\ attrs' = {"default_dict"}
    /\ log' = <<>>
    /\ runs' = runs + 1
    /\ tpc' = "init_params"
    /\ UNCHANGED <<rvars, hvars>>

\* params = self._init_params(inputs), then the choice of lines 104-111
InitParams ==
    /\ tpc = "init_params"
    /\ log' = Append(log, "_init_params")
    /\ IF InitParamsRaises(inputs)
       THEN /\ tpc' = "failed"
            /\ UNCHANGED <<heap, locals>>
       ELSE LET c == DeepCopy(heap, heap[TrendParamsDict].r["df_params"])
                h2 == [c.heap EXCEPT ![c.addr].s = inputs @@ @]
            IN  /\ heap' = h2
                /\ locals' = [locals EXCEPT !.params = c.addr]
                /\ tpc' = IF h2[c.addr].s["source"] = "norgate" THEN "prep_norgate"
                          ELSE IF h2[c.addr].s["source"] = "yahoo"
                          THEN "ticker_extract"
                          ELSE "trend_calc"
    /\ UNCHANGED <<inputs, attrs, runs, prior, rvars, hvars>>

\* a call of a collaborator: it returns, leaving heap h2 and locals l2, or it
\* raises; either way it may have changed the dictionaries it was given
Collab(stage, nxt, h2, l2) ==
    /\ tpc = stage
    /\ log' = Append(log, stage)
    /\ \E returned \in BOOLEAN, touch \in BOOLEAN :
         /\ heap' = IF touch THEN Touch(h2, locals.params) ELSE h2
         /\ tpc' = IF returned THEN nxt ELSE "failed"
         /\ locals' = IF returned THEN l2 ELSE locals
    /\ UNCHANGED <<inputs, attrs, runs, prior, rvars, hvars>>

\* prep_norgate, lines 183-187
PrepNorgate ==
    /\ tpc = "prep_norgate"
    /\ heap' = SetS(heap, locals.params, "asset_type", "CTA")
    /\ tpc' = IF heap[locals.params].s["tickers"] = "None"
              THEN "get_norgate_tickers" ELSE "date_set"
    /\ UNCHANGED <<inputs, locals, log, attrs, runs, prior, rvars, hvars>>

GetNorgateTickers ==
    Collab("get_norgate_tickers", "date_set",
           SetS(heap, locals.params, "tickers", "norgate_list"), locals)

\* YahooExtract.ticker_extract, then lines 237 and 240
TickerExtract ==
    LET names == Len(heap) + 1
        h1 == Append(heap, [s |-> ("names" :> "wikipedia"), r |-> <<>>])
        h2 == SetR(SetS(h1, locals.params, "tickers", "wiki_list"),
                   locals.params, "ticker_name_dict", names)
        h3 == SetS(h2, locals.mappings, "sector_mappings_df", "yahoo")
        h4 == SetR(h3, locals.params, "ticker_short_name_dict",
                   h3[locals.params].r["ticker_name_dict"])
    IN  Collab("ticker_extract", "date_set",
               SetS(h4, locals.params, "asset_type", "Equity"), locals)

\* variant: the ticker-cleaning step is left out
AfterImport_NoClean == "trend_calc"

\* the step after import_norgate / import_yahoo
AfterImport == "ticker_clean"

\* MktUtils.date_set, called by prep_norgate and by prep_yahoo; tables = {}
DateSet ==
    Collab("date_set",
           IF Source = "norgate" THEN "import_norgate" ELSE "import_yahoo",
           SetS(heap, locals.params, "start_date", "set"),
           [locals EXCEPT !.bound = TRUE, !.tables = <<>>])

ImportNorgate ==
    Collab("import_norgate", AfterImport,
           SetS(heap, locals.mappings, "sector_mappings_df", "norgate"),
           [locals EXCEPT !.tables =
               ("raw_ticker_dict" :> <<"norgate", "raw">>) @@ @])

ImportYahoo ==
    Collab("import_yahoo", AfterImport, heap,
           [locals EXCEPT !.tables =
               ("raw_ticker_dict" :> <<"yahoo", "raw">>) @@ @])

TickerClean ==
    Collab("ticker_clean", "trend_calc", heap,
           [locals EXCEPT !.tables =
               ("raw_ticker_dict" :>
                    Append(locals.tables["raw_ticker_dict"], "clean")) @@ @])

\* line 114: trend_calc is entered with the tables of the acquisition; with
\* neither source the name tables is unbound and the call raises
TrendCalc ==
    /\ tpc = "trend_calc"
    /\ tpc' = IF locals.bound THEN "generate_fields" ELSE "failed"
    /\ UNCHANGED <<heap, inputs, locals, log, attrs, runs, prior, rvars, hvars>>

GenerateFields ==
    Collab("generate_fields", "generate_trend_strength", heap,
           [locals EXCEPT !.tables =
               ("ticker_dict" :>
                    Append(locals.tables["raw_ticker_dict"], "fields")) @@ @])

GenerateTrendStrength ==
    Collab("generate_trend_strength", "top_trend_calc", heap,
           [locals EXCEPT !.tables =
               ("barometer" :>
                    Append(locals.tables["ticker_dict"], "trend_strength")) @@ @])

TopTrendCalc ==
    Collab("top_trend_calc", "get_all_data", heap,
           [locals EXCEPT !.top_trends = "ranked"])

GetAllData ==
    Collab("get_all_data", "expose", heap,
           [locals EXCEPT !.data_dict = "shaped"])

\* lines 124-128
Expose ==
    /\ tpc = "expose"
    /\ attrs' = attrs \cup {"top_trends", "tables", "params", "mappings",
                            "data_dict"}
    /\ tpc' = "done"
    /\ UNCHANGED <<heap, inputs, locals, log, runs, prior, rvars, hvars>>

NextRun ==
    \/ Construct \/ InitParams \/ PrepNorgate \/ GetNorgateTickers
    \/ TickerExtract \/ DateSet \/ ImportNorgate \/ ImportYahoo
    \/ TickerClean \/ TrendCalc \/ GenerateFields \/ GenerateTrendStrength
    \/ TopTrendCalc \/ GetAllData \/ Expose

SpecRun == InitRun /\ [][NextRun]_vars

(***************************************************************************)
(* Vocabulary of the TrendStrength claims.                                 *)
(***************************************************************************)
AcquisitionStages ==
    {"get_norgate_tickers", "ticker_extract", "date_set", "import_norgate",
     "import_yahoo", "ticker_clean"}

IndicatorStages == {"generate_fields", "generate_trend_strength"}

ResultAttrs == {"top_trends", "tables", "params", "data_dict"}

\* the source the run was asked for
AskedSource ==
    IF "source" \in DOMAIN inputs THEN inputs["source"] ELSE "norgate"

IsPrefix(a, b) == Len(a) <= Len(b) /\ a = SubSeq(b, 1, Len(a))

TrendStages ==
    <<"generate_fields", "generate_trend_strength", "top_trend_calc",
      "get_all_data">>

\* the stages of a run that completes, in order
ExpectedStages ==
    IF AskedSource = "norgate"
    THEN <<"_init_params">>
         \o (IF "tickers" \in DOMAIN inputs THEN <<>>
             ELSE <<"get_norgate_tickers">>)
         \o <<"date_set", "import_norgate", "ticker_clean">> \o TrendStages
    ELSE IF AskedSource = "yahoo"
    THEN <<"_init_params", "ticker_extract", "date_set", "import_yahoo",
           "ticker_clean">> \o TrendStages
    ELSE <<"_init_params">>

JustInitialised ==
    /\ Len(log) = 1
    /\ tpc \in {"prep_norgate", "ticker_extract", "trend_calc"}

(***************************************************************************)
(* C7                                                                      *)
(***************************************************************************)
\* C7 (as stated): with an unrecognized indicator_type or trend the run is
\* refused before any data-acquisition step and before any indicator
\* computation is invoked.
C7_RefusedBeforeAcquisition ==
    Unrecognized(inputs) =>
        \A i \in DOMAIN log : log[i] \notin AcquisitionStages \cup IndicatorStages

\* C7 (amended): parameter initialisation refuses nothing: it stores every
\* supplied value unchecked over the copied defaults and never raises, so a
\* run asked for 'norgate' or 'yahoo' goes on to data acquisition whatever
\* the values; an error can only come from the stages invoked after it.
C7_NoCheckAtInitialisation ==
    /\ JustInitialised =>
          \A k \in DOMAIN inputs : heap[locals.params].s[k] = inputs[k]
    /\ (tpc = "failed" /\ AskedSource \in {"norgate", "yahoo"}) => Len(log) >= 2
    /\ (Len(log) = 1 /\ AskedSource \in {"norgate", "yahoo"}) =>
          tpc \in {"prep_norgate", "get_norgate_tickers", "date_set",
                   "ticker_extract"}

\* an unrecognized value, and the first acquisition collaborator was invoked
C7_Witness ==
    /\ Unrecognized(inputs)
    /\ Len(log) = 2
    /\ log[2] \in AcquisitionStages

(***************************************************************************)
(* C8                                                                      *)
(***************************************************************************)
C8_StateInv ==
    /\ IsPrefix(log, ExpectedStages)
    /\ "ticker_dict" \in DOMAIN locals.tables =>
          locals.tables["ticker_dict"] = <<AskedSource, "raw", "clean", "fields">>
    /\ "barometer" \in DOMAIN locals.tables =>
          locals.tables["barometer"]
              = <<AskedSource, "raw", "clean", "fields", "trend_strength">>
    /\ (attrs \cap ResultAttrs # {}) =>
          (tpc = "done" /\ log = ExpectedStages /\ ResultAttrs \subseteq attrs)
    /\ tpc = "failed" => attrs \cap ResultAttrs = {}

C8_StepInv ==
    /\ tpc = "failed" => (runs' = runs + 1 /\ log' = <<>>)
    /\ log' # log => (log' = <<>> \/ (Len(log') = Len(log) + 1 /\ IsPrefix(log, log')))

\* C8: the stages of a run are invoked at most once each and in the fixed
\* order (parameter initialisation, acquisition ending with ticker_clean,
\* generate_fields on the raw tables, generate_trend_strength on its output,
\* top_trend_calc, chart-data shaping), one after the other; a failed run
\* invokes nothing more and exposes none of top_trends, tables, params,
\* data_dict.
C8_StagesInOrder == []C8_StateInv /\ [][C8_StepInv]_vars

\* a failure in the middle of the trend calculation
C8_Witness ==
    /\ tpc = "failed"
    /\ Len(log) >= 2
    /\ log[Len(log)] = "generate_trend_strength"
    /\ AskedSource = "yahoo"

(***************************************************************************)
(* C9                                                                      *)
(***************************************************************************)
Globals == 1..Len(GlobalHeap)

\* C9: the global default parameters and sector mappings never change; what
\* a run holds (default_dict, mappings, params) shares no dictionary with
\* them; and a run starts from the original default of every parameter it
\* does not override, the nested tenor map included.
C9_RunsShareNothing ==
    /\ SubSeq(heap, 1, Len(GlobalHeap)) = GlobalHeap
    /\ \A a \in {locals.default_dict, locals.mappings, locals.params} \ {0} :
          Reach(heap, a) \cap Globals = {}
    /\ JustInitialised =>
          /\ \A k \in DOMAIN GlobalHeap[2].s \ DOMAIN inputs :
                heap[locals.params].s[k] = GlobalHeap[2].s[k]
          /\ heap[heap[locals.params].r["tenor_mappings"]].s = GlobalHeap[3].s

\* a run without overrides, after a run that overrode and changed its own
C9_Witness ==
    /\ prior
    /\ JustInitialised
    /\ inputs = <<>>
====
